---------------------------- MODULE Spec2Model ----------------------------
(* A state-machine model of src/scripts/napcat-install-linux.py: the shell  *)
(* install path of main() (ShellInstall.__init__, install_qq, check_napcat, *)
(* check_packet, install_over), one action per shelled-out command or       *)
(* filesystem step.  Text is modelled as a sequence of string tokens, the   *)
(* filesystem as a function from the existing paths to their entries.       *)
(* Spec is the installer run after run on one machine; SpecRunner is the    *)
(* inside of the three command runners, between Popen and their return;   *)
(* SpecSelect is the choice of the install strategy in main() of this       *)
(* script and of src/scripts/napcat-install.py.                             *)
EXTENDS Integers, Sequences, FiniteSets, TLC

(***************************************************************************)
(* Bounds of the model.                                                    *)
(***************************************************************************)
\* the installer is run at most MaxRuns times on the same machine
MaxRuns == 2
\* a command exits with a code in 0..MaxExitCode
MaxExitCode == 2
\* SpecRunner: at most MaxCommands commands are started
MaxCommands == 3
\* SpecRunner: a child writes at most MaxOutput units of output
MaxOutput == 3
\* SpecRunner: units of output a pipe holds before a write to it blocks
PipeCapacity == 2
\* SpecRunner: width of the progress bar (80 less twice the length of the label)
max_length == 2

ExitCodes == 0 .. MaxExitCode

(***************************************************************************)
(* Program constants.                                                      *)
(***************************************************************************)
None == <<>>

PackInstaller == {"rpm", "dpkg"}

PackManager == {"apt-get", "yum"}

DownloadSuffix ==
    [AMD64_DEB |-> "_amd64.deb", AMD64_RPM |-> "_x86_64.rpm",
     ARM64_DEO |-> "_arm64.deb", ARM64_RPM |-> "_aarch64.rpm"]

FullMode == 511

\* mode of a file created by open(path, "w") or by an extraction: 0o666 less the umask
CreateMode == 420

base_path == <<"cwd">>

qq_install_path == <<"opt", "QQ">>

qq_app_path == qq_install_path \o <<"resources", "app">>

napcat_install_path == qq_install_path \o <<"NapCat">>

napcat_packet_install_path == qq_install_path \o <<"NapCat.Packet">>

package_path == qq_install_path \o <<"resources", "app", "package.json">>

napcat_config_path == napcat_install_path \o <<"config", "napcat.json">>

proxy_list ==
    <<"https://slink.ltd/", "https://hub.gitmirror.com/", "https://gh.ddlc.top/",
      "https://cors.isteed.cc/", "https://ghproxy.cc/", "https://github.moeyy.xyz/">>

napcat_download_url ==
    <<"https://github.com/NapNeko/NapCatQQ/releases/latest/download/NapCat.Shell.zip">>

napcat_packet_download_url_base ==
    <<"https://github.com/NapNeko/NapCatQQ/releases/latest/download/napcat.packet.">>

(***************************************************************************)
(* What the outside world can answer.                                      *)
(***************************************************************************)
\* platform.machine().lower()
Archs == {"x86_64", "aarch64", "riscv64"}

\* the "version" field of the payload's package.json
NapcatVersions == {"1", "2"}

\* a host-application version, split at "-" (version, release)
QQVersions == {<<"3.2">>, <<"3.2", "r2">>}

\* bodies served by https://nclatest.znin.net/
NapcatBodies ==
    {[parses |-> TRUE, doc |-> ("tag_name" :> <<"v", v>>)] : v \in NapcatVersions}
      \cup {[parses |-> FALSE, doc |-> ("error" :> <<"html">>)]}

\* bodies served by https://nclatest.znin.net/get_qq_ver
QQBodies ==
    {[parses |-> TRUE,
      doc |-> ("linuxVersion" :> v) @@ ("linuxVerHash" :> <<"h", v[Len(v)]>>)] :
        v \in QQVersions}
      \cup {[parses |-> TRUE, doc |-> ("error" :> <<"rate limited">>)]}

\* a per-user configuration file of the host application, as find lists it
user_config_path(u) == <<"home", u, ".config", "QQ", "versions", "config.json">>

root_config_path == <<"root", ".config", "QQ", "versions", "config.json">>

\* the configuration the host application wrote when a user last ran it, and
\* one cut short while it was written
GoodConfig ==
    [kind |-> "file", mode |-> 420, parses |-> TRUE,
     doc |-> ("baseVersion" :> <<"3.1">>) @@ ("autoUpdate" :> <<"true">>)]

BadConfig == [kind |-> "file", mode |-> 420, parses |-> FALSE, doc |-> ("raw" :> <<"{">>)]

\* the configuration files the machine holds when the installer is first
\* run: the host application has been used on it before
InitialConfigs ==
    {(user_config_path("alice") :> GoodConfig) @@ (root_config_path :> GoodConfig),
     (user_config_path("alice") :> BadConfig),
     (user_config_path("alice") :> GoodConfig) @@ (user_config_path("bob") :> BadConfig)}

VARIABLES
    pc,                         \* position of the run in main()
    run,                        \* number of the current run of the installer
    exitCode,                   \* -1 while running, else the process exit status
    fail,                       \* what ended the run, and what was reported of it
    trace,                      \* commands and filesystem steps issued by this run
                                \* for the artifact it is working on
    fs,                         \* the filesystem: existing path -> entry
    zip,                        \* what NapCat.zip holds
    pkgdb,                      \* version of linuxqq in the package database, or None
    arch,
    package_manager,
    package_installer,
    napcat_remote_version,
    qq_remote_version,
    qq_remote_hash,
    qq_download_url,
    qq_local_version,
    napcat_packet_download_url,
    args5,                      \* args[5], the URL of the current transfer
    proxy,                      \* index of the mirror loop; 0 is the primary
    decision,                   \* artifact -> decision taken by this run
    before,                     \* the payload tree as check_napcat found it
    children,                   \* the child processes started so far, oldest first
    runner,                     \* the command runner at work, and where it is
    select                      \* the choice of the install strategy in main()

vars ==
    <<pc, run, exitCode, fail, trace, fs, zip, pkgdb, arch, package_manager,
      package_installer, napcat_remote_version, qq_remote_version, qq_remote_hash,
      qq_download_url, qq_local_version, napcat_packet_download_url, args5, proxy,
      decision, before, children, runner, select>>

\* the variables of one run of the process (everything but the machine's state)
procVars ==
    <<package_manager, package_installer, napcat_remote_version, qq_remote_version,
      qq_remote_hash, qq_download_url, qq_local_version, napcat_packet_download_url,
      args5, proxy, decision, before, children, runner, select>>

NoFail == [kind |-> "none", rc |-> 0, reported |-> FALSE]

NoTree == [p \in {} |-> p]

\* no command runner is at work
Idle == [name |-> "idle", at |-> "idle", position |-> 0, observed |-> FALSE, late |-> FALSE]

(***************************************************************************)
(* Filesystem helpers.                                                     *)
(***************************************************************************)
IsPrefix(d, p) == Len(d) <= Len(p) /\ SubSeq(p, 1, Len(d)) = d

\* Path.iterdir(): the entries directly under d
iterdir(f, d) == {p \in DOMAIN f : Len(p) = Len(d) + 1 /\ IsPrefix(d, p)}

\* Path.rglob("*"): everything under d
rglob(f, d) == {p \in DOMAIN f : Len(p) > Len(d) /\ IsPrefix(d, p)}

\* the content of an entry that is no JSON document
Raw(text) == ("raw" :> text)

Dir(mode) == [kind |-> "dir", mode |-> mode, parses |-> FALSE, doc |-> Raw(<<>>)]

File(mode, parses, doc) == [kind |-> "file", mode |-> mode, parses |-> parses, doc |-> doc]

\* the directories on the way to p that do not exist yet
Parents(f, p) == {SubSeq(p, 1, n) : n \in 2 .. (Len(p) - 1)} \ DOMAIN f

\* open(p, "w").write(...): creates p, or truncates it and keeps its mode
WriteFile(f, p, parses, doc) ==
    [q \in DOMAIN f \cup {p} |->
        IF q = p
        THEN File(IF p \in DOMAIN f THEN f[p].mode ELSE CreateMode, parses, doc)
        ELSE f[q]]

\* rm -rf p / Path.unlink()
Remove(f, p) == [q \in {r \in DOMAIN f : ~IsPrefix(p, r)} |-> f[q]]

\* Path.mkdir()
Mkdir(f, p) == [q \in DOMAIN f \cup {p} |-> IF q = p THEN Dir(493) ELSE f[q]]

\* item.chmod(0o777) for every item of a set
ChmodAll(f, S) == [q \in DOMAIN f |-> IF q \in S THEN [f[q] EXCEPT !.mode = FullMode] ELSE f[q]]

(***************************************************************************)
(* The three command runners.  rc is the exit status of the child.  Each   *)
(* answers whether it returns to its caller, and if not the status the     *)
(* process exits with and whether the failure was echoed.                  *)
(***************************************************************************)
\* call_subprocess taking every command for a success
call_subprocess_unchecked(rc) ==
    [returns |-> TRUE, returncode |-> 0, exit |-> 0, reported |-> FALSE]

call_subprocess(rc) ==
    [returns |-> rc = 0, returncode |-> rc, exit |-> rc, reported |-> rc # 0]

curl_subprocess(rc, error_exit, err_echo) ==
    [returns |-> ~(error_exit /\ rc # 0), returncode |-> rc, exit |-> 1,
     reported |-> rc # 0 /\ err_echo]

\* long_time_subprocess returning to its caller whatever error_exit says
long_time_subprocess_noexit(rc, error_exit, err_echo) ==
    [returns |-> TRUE, returncode |-> rc, exit |-> 1, reported |-> rc # 0 /\ err_echo]

\* long_time_subprocess ending the run on every failure, whatever error_exit says
long_time_subprocess_strict(rc, error_exit, err_echo) ==
    [returns |-> rc = 0, returncode |-> rc, exit |-> 1, reported |-> rc # 0 /\ err_echo]

long_time_subprocess(rc, error_exit, err_echo) ==
    [returns |-> ~(error_exit /\ rc # 0), returncode |-> rc, exit |-> 1,
     reported |-> rc # 0 /\ err_echo]

\* one entry of the trace: the artifact, the operation and its argument,
\* whether it succeeded (exit status 0, no exception), and whether its call
\* site asks for the run to end when it fails
Step(art, op, arg, rc, fatal) == [art |-> art, op |-> op, arg |-> arg, ok |-> rc = 0, fatal |-> fatal]

\* sys.exit(code) / exit(code) / an uncaught exception
Exit(kind, code, rc, reported) ==
    /\ pc' = "exit"
    /\ exitCode' = code
    /\ fail' = [kind |-> kind, rc |-> rc, reported |-> reported]

\* a command failed in a runner that does not return
ExitBy(r) == Exit("command", r.exit, r.returncode, r.reported)

Goto(l) == pc' = l /\ UNCHANGED <<exitCode, fail>>

\* main() of napcat-install-linux.py was started with --shell
Selected ==
    [script |-> "napcat-install-linux.py", at |-> "shell", argv |-> {"-s"}, shell |-> TRUE,
     docker |-> FALSE, current_row |-> 0, answer |-> <<>>, status |-> -1]

\* the machine and the installer's fields when ShellInstall() is called
Boot ==
    /\ pc = "get_remote_version"
    /\ run = 1
    /\ exitCode = -1
    /\ fail = NoFail
    /\ trace = <<>>
    /\ \E configs \in InitialConfigs : fs = (base_path :> Dir(493)) @@ configs
    /\ zip = [valid |-> FALSE, version |-> "", config |-> FALSE]
    /\ pkgdb = None
    /\ arch \in Archs
    /\ package_manager = "None"
    /\ package_installer = "None"
    /\ napcat_remote_version = None
    /\ qq_remote_version = None
    /\ qq_remote_hash = None
    /\ qq_download_url = None
    /\ qq_local_version = None
    /\ napcat_packet_download_url = napcat_packet_download_url_base
    /\ args5 = None
    /\ proxy = 0
    /\ decision = [a \in {"host", "payload", "packet"} |-> "UNEVALUATED"]
    /\ before = NoTree
    /\ children = <<>>
    /\ runner = Idle

Init == Boot /\ select = Selected


(***************************************************************************)
(* ShellInstall.__init__: remote versions, then platform detection.        *)
(***************************************************************************)
\* json.loads(body)[key] raises unless the body parses and holds the key
HasKeys(body, keys) == body.parses /\ keys \subseteq DOMAIN body.doc

get_remote_version ==
    /\ pc = "get_remote_version"
    /\ \E rc \in ExitCodes, body \in NapcatBodies :
         LET r == call_subprocess(rc) IN
         /\ trace' = Append(trace, Step("setup", "curl", <<"https://nclatest.znin.net/">>, rc, TRUE))
         /\ IF ~r.returns
            THEN ExitBy(r) /\ UNCHANGED napcat_remote_version
            ELSE IF r.returncode # 0
            THEN Exit("logic", 1, r.returncode, FALSE) /\ UNCHANGED napcat_remote_version
            ELSE IF ~HasKeys(body, {"tag_name"})
            THEN Exit("exception", 1, 0, FALSE) /\ UNCHANGED napcat_remote_version
            ELSE /\ napcat_remote_version' = body.doc["tag_name"]
                 /\ Goto("get_remote_version_qq")
    /\ UNCHANGED <<select, children, runner, run, fs, zip, pkgdb, arch, package_manager, package_installer,
                   qq_remote_version, qq_remote_hash, qq_download_url, qq_local_version,
                   napcat_packet_download_url, args5, proxy, decision, before>>

get_remote_version_qq ==
    /\ pc = "get_remote_version_qq"
    /\ \E rc \in ExitCodes, body \in QQBodies :
         LET r == call_subprocess(rc)
             ok == r.returns /\ r.returncode = 0 /\ HasKeys(body, {"linuxVersion", "linuxVerHash"})
         IN
         /\ trace' = Append(trace, Step("setup", "curl", <<"https://nclatest.znin.net/get_qq_ver">>, rc, TRUE))
         /\ IF ~r.returns
            THEN ExitBy(r)
            ELSE IF r.returncode # 0
            THEN Exit("logic", 1, r.returncode, FALSE)
            ELSE IF ~HasKeys(body, {"linuxVersion", "linuxVerHash"})
            THEN Exit("exception", 1, 0, FALSE)
            ELSE Goto("detect_package_manager")
         /\ IF ok
            THEN /\ qq_remote_version' = body.doc["linuxVersion"]
                 /\ qq_remote_hash' = body.doc["linuxVerHash"]
                 /\ qq_download_url' =
                        <<"https://dldir1.qq.com/qqfile/qq/QQNT/">> \o body.doc["linuxVerHash"]
                          \o <<"/linuxqq_">> \o body.doc["linuxVersion"]
            ELSE UNCHANGED <<qq_remote_version, qq_remote_hash, qq_download_url>>
    /\ UNCHANGED <<select, children, runner, run, fs, zip, pkgdb, arch, package_manager, package_installer,
                   napcat_remote_version, qq_local_version, napcat_packet_download_url,
                   args5, proxy, decision, before>>

\* the shape shared by detect_package_manager and detect_package_installer:
\* `which first`, and only if that call returned non-zero, `which second`
Detect(rc1, first, rc2, second) ==
    LET r1 == call_subprocess(rc1)
        r2 == call_subprocess(rc2)
        s1 == Step("setup", "which", <<first>>, rc1, TRUE)
        s2 == Step("setup", "which", <<second>>, rc2, TRUE)
    IN  IF ~r1.returns THEN [steps |-> <<s1>>, found |-> "None", by |-> r1, exits |-> TRUE]
        ELSE IF r1.returncode = 0 THEN [steps |-> <<s1>>, found |-> first, by |-> r1, exits |-> FALSE]
        ELSE IF ~r2.returns THEN [steps |-> <<s1, s2>>, found |-> "None", by |-> r2, exits |-> TRUE]
        ELSE IF r2.returncode = 0 THEN [steps |-> <<s1, s2>>, found |-> second, by |-> r2, exits |-> FALSE]
        ELSE [steps |-> <<s1, s2>>, found |-> "None",
              by |-> [returns |-> FALSE, returncode |-> 0, exit |-> 1, reported |-> FALSE],
              exits |-> TRUE]

detect_package_manager ==
    /\ pc = "detect_package_manager"
    /\ \E rc1 \in ExitCodes, rc2 \in ExitCodes :
         LET d == Detect(rc1, "apt-get", rc2, "yum") IN
         /\ trace' = trace \o d.steps
         /\ package_manager' = d.found
         /\ IF d.exits THEN ExitBy(d.by) ELSE Goto("detect_package_installer")
    /\ UNCHANGED <<select, children, runner, run, fs, zip, pkgdb, arch, package_installer, napcat_remote_version,
                   qq_remote_version, qq_remote_hash, qq_download_url, qq_local_version,
                   napcat_packet_download_url, args5, proxy, decision, before>>

detect_package_installer ==
    /\ pc = "detect_package_installer"
    /\ \E rc1 \in ExitCodes, rc2 \in ExitCodes :
         LET d == Detect(rc1, "dpkg", rc2, "rpm") IN
         /\ trace' = trace \o d.steps
         /\ package_installer' = d.found
         /\ IF d.exits THEN ExitBy(d.by) ELSE Goto("check_installed")
    /\ UNCHANGED <<select, children, runner, run, fs, zip, pkgdb, arch, package_manager, napcat_remote_version,
                   qq_remote_version, qq_remote_hash, qq_download_url, qq_local_version,
                   napcat_packet_download_url, args5, proxy, decision, before>>


(***************************************************************************)
(* QQ: the host application.                                               *)
(***************************************************************************)
\* the exit statuses the package-database query can end with: non-zero when
\* the package is not in the database, and otherwise 0 or, when the query
\* itself could not be carried out (database locked or damaged), non-zero
QueryCodes(db) == IF db = None THEN ExitCodes \ {0} ELSE ExitCodes

\* QQ.get_local_version: check_output raises CalledProcessError on every
\* non-zero status, which is caught and answered with False; otherwise rpm
\* prints %{VERSION} (the version without its release) and the last "-"
\* part of it is kept, and dpkg prints the columns status, name, version,
\* architecture (linuxqq has no description), of which the last but one
\* whitespace token is kept.
QQ_get_local_version(installer, db, rc) ==
    IF rc # 0
    THEN [installed |-> FALSE, version |-> None]
    ELSE IF installer = "rpm"
    THEN LET out == <<db[1]>> IN [installed |-> TRUE, version |-> <<out[Len(out)]>>]
    ELSE IF installer = "dpkg"
    THEN LET out == << <<"ii">>, <<"linuxqq">>, db, <<arch>> >>
         IN  [installed |-> TRUE, version |-> out[Len(out) - 1]]
    ELSE [installed |-> TRUE, version |-> None]

\* the branch QQ.check_installed takes
check_installed_decision(q, local, remote) ==
    IF ~q.installed THEN "FRESH_INSTALL"
    ELSE IF local # remote THEN "UPGRADE"
    ELSE "SKIP"

\* a check_installed that returns on SKIP before the configs are patched
check_installed_next_return(d) == IF d = "SKIP" THEN "check_napcat" ELSE "install"

\* where QQ.check_installed goes on after its decision
check_installed_next(d) == IF d = "SKIP" THEN "update_linuxqq_config" ELSE "install"

check_installed ==
    /\ pc = "check_installed"
    /\ \E rc \in QueryCodes(pkgdb) :
         LET q == QQ_get_local_version(package_installer, pkgdb, rc)
             local == IF q.installed THEN q.version ELSE qq_local_version
             d == check_installed_decision(q, local, qq_remote_version)
         IN  /\ qq_local_version' = local
             /\ decision' = [decision EXCEPT !["host"] = d]
             /\ trace' = <<Step("host", "query", <<package_installer>>, rc, FALSE)>>
             /\ Goto(check_installed_next(d))
    /\ UNCHANGED <<select, children, runner, run, fs, zip, pkgdb, arch, package_manager, package_installer,
                   napcat_remote_version, qq_remote_version, qq_remote_hash,
                   qq_download_url, napcat_packet_download_url, args5, proxy, before>>

set_download_qq_url(url, installer, a) ==
    LET amd64 == [rpm |-> DownloadSuffix.AMD64_RPM, dpkg |-> DownloadSuffix.AMD64_DEB]
        arm64 == [rpm |-> DownloadSuffix.ARM64_RPM, dpkg |-> DownloadSuffix.ARM64_DEO]
    IN  IF a \in {"amd64", "x86_64"} /\ installer \in DOMAIN amd64 THEN url \o <<amd64[installer]>>
        ELSE IF a \in {"arm64", "aarch64"} /\ installer \in DOMAIN arm64 THEN url \o <<arm64[installer]>>
        ELSE url

\* the package file QQ.install downloads, installs and removes
QQPackageFile == base_path \o <<IF package_installer = "rpm" THEN "QQ.rpm" ELSE "QQ.deb">>

\* the manifest the host application's package ships
QQManifest == ("name" :> <<"qq">>) @@ ("main" :> <<"./application/app_launcher/index.js">>)

\* what a successful package install leaves on disk: the application tree,
\* with the package's own files replaced by the package's copies
InstallPackageFiles(f) ==
    LET dirs == {qq_install_path, qq_install_path \o <<"resources">>, qq_app_path} IN
    [q \in DOMAIN f \cup dirs \cup {package_path} |->
        IF q = package_path THEN File(CreateMode, TRUE, QQManifest)
        ELSE IF q \in DOMAIN f THEN f[q]
        ELSE Dir(493)]

\* QQ.install, first command: the download
install ==
    /\ pc = "install"
    /\ \E rc \in ExitCodes :
         LET url == set_download_qq_url(qq_download_url, package_installer, arch)
             r == curl_subprocess(rc, TRUE, TRUE)
         IN  /\ qq_download_url' = url
             /\ trace' = Append(trace, Step("host", "curl", url, rc, TRUE))
             /\ fs' = IF rc = 0 THEN WriteFile(fs, QQPackageFile, FALSE, Raw(<<"package">>)) ELSE fs
             /\ IF r.returns THEN Goto("install_package") ELSE ExitBy(r)
    /\ UNCHANGED <<select, children, runner, run, zip, pkgdb, arch, package_manager, package_installer,
                   napcat_remote_version, qq_remote_version, qq_remote_hash,
                   qq_local_version, napcat_packet_download_url, args5, proxy, decision,
                   before>>

\* yum localinstall -y ./QQ.rpm / apt-get install -f -y ./QQ.deb
install_package ==
    /\ pc = "install_package"
    /\ \E rc \in ExitCodes :
         LET r == long_time_subprocess(rc, TRUE, TRUE)
             tool == IF package_installer = "rpm" THEN "yum" ELSE "apt-get"
         IN  /\ trace' = Append(trace, Step("host", tool, QQPackageFile, rc, TRUE))
             /\ fs' = IF rc = 0 THEN InstallPackageFiles(fs) ELSE fs
             /\ pkgdb' = IF rc = 0 THEN qq_remote_version ELSE pkgdb
             /\ IF ~r.returns THEN ExitBy(r)
                ELSE Goto(IF package_installer = "rpm" THEN "install_rm" ELSE "install_libnss3")
    /\ UNCHANGED <<run, zip, arch, procVars>>

\* apt-get install -y pkg through long_time_subprocess
InstallDep(here, pkg, error_exit, err_echo, next_ok, next_failed) ==
    /\ pc = here
    /\ \E rc \in ExitCodes :
         LET r == long_time_subprocess(rc, error_exit, err_echo) IN
         /\ trace' = Append(trace, Step("host", "apt-get", <<pkg>>, rc, error_exit))
         /\ IF ~r.returns THEN ExitBy(r)
            ELSE IF r.returncode # 0 THEN Goto(next_failed)
            ELSE Goto(next_ok)
    /\ UNCHANGED <<run, fs, zip, pkgdb, arch, procVars>>

install_libnss3 == InstallDep("install_libnss3", "libnss3", TRUE, TRUE, "install_libgbm1", "install_libgbm1")

install_libgbm1 == InstallDep("install_libgbm1", "libgbm1", TRUE, TRUE, "install_xvfb", "install_xvfb")

install_xvfb == InstallDep("install_xvfb", "xvfb", TRUE, TRUE, "install_libasound2", "install_libasound2")

install_libasound2 ==
    InstallDep("install_libasound2", "libasound2", FALSE, FALSE, "install_rm", "install_libasound2t64")

install_libasound2t64 ==
    InstallDep("install_libasound2t64", "libasound2t64", TRUE, TRUE, "install_rm", "install_rm")

\* rm -f QQ.rpm / QQ.deb through call_subprocess; the warning of lines 351
\* and 372 is printed when the call returns a non-zero returncode
install_rm ==
    /\ pc = "install_rm"
    /\ \E rc \in ExitCodes :
         LET r == call_subprocess(rc) IN
         /\ trace' = Append(trace, Step("host", "rm", QQPackageFile, rc, TRUE))
         /\ fs' = IF rc = 0 THEN Remove(fs, QQPackageFile) ELSE fs
         /\ IF ~r.returns THEN ExitBy(r) ELSE Goto("update_linuxqq_config")
    /\ UNCHANGED <<run, zip, pkgdb, arch, procVars>>


(***************************************************************************)
(* Reading and patching JSON files.                                        *)
(***************************************************************************)
\* open(p, "r") succeeds and json.load accepts whatever the file holds
Loads_any(f, p) == p \in DOMAIN f /\ f[p].kind = "file"

\* open(p, "r") and json.load succeed
Loads(f, p) == p \in DOMAIN f /\ f[p].kind = "file" /\ f[p].parses

\* Patch writing the edits alone, without the document that was loaded
Patch_replace(f, p, edits) == WriteFile(f, p, TRUE, edits)

\* data[k] = v for every edit, then json.dump over the same path
Patch(f, p, edits) == WriteFile(f, p, TRUE, edits @@ f[p].doc)

\* find /home -name config.json -path */.config/QQ/versions/*
FindConfigs(f) == {p \in DOMAIN f : p[1] = "home" /\ p[Len(p)] = "config.json"}

\* the orders in which find may list a set of paths
Orders(S) == {s \in [1 .. Cardinality(S) -> S] : \A i, j \in DOMAIN s : s[i] = s[j] => i = j}

\* the loop of update_linuxqq_config: patch each config in turn, and stop
\* at the first one that cannot be loaded
RECURSIVE PatchEach(_, _, _)
PatchEach(f, list, edits) ==
    IF list = <<>> THEN [fs |-> f, ok |-> TRUE, steps |-> <<>>]
    ELSE IF ~Loads(f, Head(list))
    THEN [fs |-> f, ok |-> FALSE, steps |-> <<Step("host", "patch", Head(list), 1, TRUE)>>]
    ELSE LET rest == PatchEach(Patch(f, Head(list), edits), Tail(list), edits)
         IN  [rest EXCEPT !.steps = <<Step("host", "patch", Head(list), 0, TRUE)>> \o @]

update_linuxqq_config ==
    /\ pc = "update_linuxqq_config"
    /\ \E rc \in ExitCodes, found \in Orders(FindConfigs(fs)) :
         LET configs_list == IF root_config_path \in DOMAIN fs
                             THEN Append(found, root_config_path) ELSE found
             edits == ("baseVersion" :> qq_remote_version) @@ ("curVersion" :> qq_remote_version)
                        @@ ("buildId" :> qq_remote_hash)
             done == PatchEach(fs, configs_list, edits)
             find == Step("host", "find", <<"/home">>, rc, TRUE)
         IN  IF rc # 0
             THEN /\ trace' = Append(trace, find)
                  /\ fs' = fs
                  /\ Exit("exception", 1, rc, FALSE)
             ELSE /\ trace' = Append(trace, find) \o done.steps
                  /\ fs' = done.fs
                  /\ IF done.ok THEN Goto("check_napcat") ELSE Exit("exception", 1, 0, FALSE)
    /\ UNCHANGED <<run, zip, pkgdb, arch, procVars>>

(***************************************************************************)
(* ShellInstall: the payload (NapCat).                                     *)
(***************************************************************************)
\* ShellInstall.get_local_version: None without the install directory,
\* otherwise "v" + the manifest's version; open() and json.load raise when
\* the manifest is missing or does not hold the field
get_local_version(f) ==
    LET manifest == napcat_install_path \o <<"package.json">> IN
    IF napcat_install_path \notin DOMAIN f THEN [raises |-> FALSE, version |-> None]
    ELSE IF ~Loads(f, manifest) \/ "version" \notin DOMAIN f[manifest].doc
    THEN [raises |-> TRUE, version |-> None]
    ELSE [raises |-> FALSE, version |-> <<"v">> \o f[manifest].doc["version"]]

\* the branch ShellInstall.check_napcat takes; "RAISED" when it takes none
check_napcat_decision(f, remote) ==
    IF napcat_install_path \notin DOMAIN f THEN "FRESH_INSTALL"
    ELSE IF get_local_version(f).raises THEN "RAISED"
    ELSE IF remote # get_local_version(f).version THEN "UPGRADE"
    ELSE "SKIP"

\* check_napcat downloading and installing whatever it decided
check_napcat_next_always(d) == "download_napcat"

\* where ShellInstall.check_napcat goes on after its decision
check_napcat_next(d) == IF d = "SKIP" THEN "check_packet" ELSE "download_napcat"

check_napcat ==
    /\ pc = "check_napcat"
    /\ LET d == check_napcat_decision(fs, napcat_remote_version) IN
       /\ trace' = <<Step("payload", "check", napcat_install_path,
                          IF d = "RAISED" THEN 1 ELSE 0, TRUE)>>
       /\ before' = [p \in rglob(fs, napcat_install_path) |-> fs[p]]
       /\ IF d = "RAISED"
          THEN Exit("exception", 1, 0, FALSE) /\ UNCHANGED decision
          ELSE /\ decision' = [decision EXCEPT !["payload"] = d]
               /\ Goto(check_napcat_next(d))
    /\ UNCHANGED <<select, children, runner, run, fs, zip, pkgdb, arch, package_manager, package_installer,
                   napcat_remote_version, qq_remote_version, qq_remote_hash,
                   qq_download_url, qq_local_version, napcat_packet_download_url,
                   args5, proxy>>

\* args[5] of attempt i: the primary URL, then proxy + URL for each mirror
Candidate(i, url) == IF i = 0 THEN url ELSE <<proxy_list[i]>> \o url

\* download_next with the return inside the mirror loop forgotten
download_next_noreturn(i, returncode) ==
    IF returncode = 0 /\ i = 0 THEN "return"
    ELSE IF i < Len(proxy_list) THEN "retry"
    ELSE "exit"

\* download_next with the exit after the mirror loop forgotten
download_next_noexit(i, returncode) ==
    IF returncode = 0 THEN "return"
    ELSE IF i < Len(proxy_list) THEN "retry"
    ELSE "return"

\* what download_napcat / download_packet do after attempt i has exited
download_next(i, returncode) ==
    IF returncode = 0 THEN "return"
    ELSE IF i < Len(proxy_list) THEN "retry"
    ELSE "exit"

\* what a finished transfer can have put into NapCat.zip: an archive of the
\* remote version, with or without a config directory, or something that is
\* no archive (curl exits 0 on an HTTP error page)
ZipContents(remote) ==
    {[valid |-> TRUE, version |-> remote[2], config |-> c] : c \in BOOLEAN}
      \cup {[valid |-> FALSE, version |-> "", config |-> FALSE]}

zip_path == base_path \o <<"NapCat.zip">>

download_napcat ==
    /\ pc = "download_napcat"
    /\ \E rc \in ExitCodes, z \in ZipContents(napcat_remote_version) :
         LET url == Candidate(proxy, napcat_download_url)
             r == curl_subprocess(rc, FALSE, FALSE)
             next == download_next(proxy, r.returncode)
         IN  /\ args5' = url
             /\ trace' = Append(trace, Step("payload", "curl", url, rc, FALSE))
             /\ IF ~r.returns
                THEN ExitBy(r) /\ UNCHANGED <<fs, zip, proxy>>
                ELSE IF r.returncode = 0
                THEN /\ fs' = WriteFile(fs, zip_path, FALSE, Raw(<<"download">>))
                     /\ zip' = z
                     /\ IF next = "return"
                        THEN proxy' = 0 /\ Goto("install_napcat")
                        ELSE IF next = "retry"
                        THEN proxy' = proxy + 1 /\ Goto("download_napcat")
                        ELSE proxy' = 0 /\ Exit("logic", 1, rc, FALSE)
                ELSE /\ UNCHANGED <<fs, zip>>
                     /\ IF next = "return"
                        THEN proxy' = 0 /\ Goto("install_napcat")
                        ELSE IF next = "retry"
                        THEN proxy' = proxy + 1 /\ Goto("download_napcat")
                        ELSE proxy' = 0 /\ Exit("logic", 1, rc, FALSE)
    /\ UNCHANGED <<select, children, runner, run, pkgdb, arch, package_manager, package_installer,
                   napcat_remote_version, qq_remote_version, qq_remote_hash,
                   qq_download_url, qq_local_version, napcat_packet_download_url,
                   decision, before>>


\* the members of the archive NapCat.zip holds, by their path in the archive
Archive(z) ==
    LET core == (<<"package.json">> :>
                    [parses |-> TRUE, doc |-> ("name" :> <<"napcat">>) @@ ("version" :> <<z.version>>)])
                @@ (<<"napcat.mjs">> :> [parses |-> FALSE, doc |-> Raw(<<"napcat", z.version>>)])
        old == IF z.version = "1"
               THEN (<<"lib1.js">> :> [parses |-> FALSE, doc |-> Raw(<<"lib", z.version>>)])
               ELSE [m \in {} |-> m]
        cfg == IF z.config
               THEN (<<"config", "napcat.json">> :> [parses |-> TRUE, doc |-> ("fileLog" :> <<"false">>)])
               ELSE [m \in {} |-> m]
    IN  core @@ old @@ cfg

\* ZipFile.extractall(root): every member is written under root, over
\* whatever is there, and missing directories are created
extractall(f, root, members) ==
    LET targets == {root \o m : m \in DOMAIN members}
        dirs == UNION {Parents(f, t) : t \in targets}
        member(q) == members[SubSeq(q, Len(root) + 1, Len(q))]
    IN  [q \in DOMAIN f \cup targets \cup dirs |->
            IF q \in targets
            THEN File(IF q \in DOMAIN f THEN f[q].mode ELSE CreateMode, member(q).parses, member(q).doc)
            ELSE IF q \in DOMAIN f THEN f[q]
            ELSE Dir(493)]

\* the entries install_napcat deletes before it extracts
ToDelete(f) == {p \in iterdir(f, napcat_install_path) : p[Len(p)] # "config"}

hook_path == qq_app_path \o <<"loadNapCat.js">>

\* a hook that loads the host application's own launcher
hook_text_launcher == Raw(<<"import", "file:///">> \o qq_app_path \o <<"app_launcher", "index.js">>)

hook_text == Raw(<<"import", "file:///">> \o napcat_install_path \o <<"napcat.mjs">>)

\* install_napcat, lines 484-487: create the install directory if missing
install_napcat ==
    /\ pc = "install_napcat"
    /\ IF napcat_install_path \notin DOMAIN fs
       THEN IF qq_install_path \in DOMAIN fs
            THEN /\ fs' = Mkdir(fs, napcat_install_path)
                 /\ trace' = Append(trace, Step("payload", "mkdir", napcat_install_path, 0, TRUE))
                 /\ Goto("install_napcat_extract")
            ELSE /\ fs' = fs
                 /\ trace' = Append(trace, Step("payload", "mkdir", napcat_install_path, 1, TRUE))
                 /\ Exit("exception", 1, 0, FALSE)
       ELSE /\ UNCHANGED <<fs, trace>>
            /\ Goto("install_napcat_rm")
    /\ UNCHANGED <<run, zip, pkgdb, arch, procVars>>

\* install_napcat, lines 490-492: rm -rf every entry but config, one call each
install_napcat_rm ==
    /\ pc = "install_napcat_rm"
    /\ IF ToDelete(fs) = {}
       THEN /\ UNCHANGED <<fs, trace>>
            /\ Goto("install_napcat_extract")
       ELSE \E file \in ToDelete(fs), rc \in ExitCodes :
              LET r == call_subprocess(rc) IN
              /\ trace' = Append(trace, Step("payload", "rm", napcat_install_path, rc, TRUE))
              /\ fs' = IF rc = 0 THEN Remove(fs, file) ELSE fs
              /\ IF ~r.returns THEN ExitBy(r) ELSE Goto("install_napcat_rm")
    /\ UNCHANGED <<run, zip, pkgdb, arch, procVars>>

\* install_napcat, lines 495-497
install_napcat_extract ==
    /\ pc = "install_napcat_extract"
    /\ IF zip.valid
       THEN /\ fs' = extractall(fs, napcat_install_path, Archive(zip))
            /\ trace' = Append(trace, Step("payload", "extract", napcat_install_path, 0, TRUE))
            /\ Goto("install_napcat_chmod")
       ELSE /\ fs' = fs
            /\ trace' = Append(trace, Step("payload", "extract", napcat_install_path, 1, TRUE))
            /\ Exit("exception", 1, 0, FALSE)
    /\ UNCHANGED <<run, zip, pkgdb, arch, procVars>>

\* install_napcat, lines 500-505
install_napcat_chmod ==
    /\ pc = "install_napcat_chmod"
    /\ fs' = ChmodAll(ChmodAll(fs, rglob(fs, napcat_install_path)), rglob(fs, qq_install_path))
    /\ trace' = Append(trace, Step("payload", "chmod", qq_install_path, 0, TRUE))
    /\ Goto("install_napcat_hook")
    /\ UNCHANGED <<run, zip, pkgdb, arch, procVars>>

\* install_napcat, lines 508-509
install_napcat_hook ==
    /\ pc = "install_napcat_hook"
    /\ IF qq_app_path \in DOMAIN fs
       THEN /\ fs' = WriteFile(fs, hook_path, FALSE, hook_text)
            /\ trace' = Append(trace, Step("payload", "write", hook_path, 0, TRUE))
            /\ Goto("install_napcat_unlink")
       ELSE /\ fs' = fs
            /\ trace' = Append(trace, Step("payload", "write", hook_path, 1, TRUE))
            /\ Exit("exception", 1, 0, FALSE)
    /\ UNCHANGED <<run, zip, pkgdb, arch, procVars>>

\* install_napcat, line 512
install_napcat_unlink ==
    /\ pc = "install_napcat_unlink"
    /\ fs' = Remove(fs, zip_path)
    /\ trace' = Append(trace, Step("payload", "unlink", zip_path, 0, TRUE))
    /\ Goto("install_napcat_manifest")
    /\ UNCHANGED <<run, zip, pkgdb, arch, procVars>>

\* install_napcat, lines 515-523
install_napcat_manifest ==
    /\ pc = "install_napcat_manifest"
    /\ IF Loads(fs, package_path)
       THEN /\ fs' = Patch(fs, package_path, ("main" :> <<"./loadNapCat.js">>))
            /\ trace' = Append(trace, Step("payload", "patch", package_path, 0, TRUE))
            /\ Goto("check_packet")
       ELSE /\ fs' = fs
            /\ trace' = Append(trace, Step("payload", "patch", package_path, 1, TRUE))
            /\ Exit("exception", 1, 0, FALSE)
    /\ UNCHANGED <<run, zip, pkgdb, arch, procVars>>

(***************************************************************************)
(* ShellInstall: the packet component (NapCat.Packet).                     *)
(***************************************************************************)
packet_path == napcat_packet_install_path \o <<"napcat.packet">>

\* check_packet, lines 554-558
check_packet ==
    /\ pc = "check_packet"
    /\ before' = NoTree
    /\ IF napcat_packet_install_path \in DOMAIN fs
       THEN /\ decision' = [decision EXCEPT !["packet"] = "SKIP"]
            /\ fs' = fs
            /\ trace' = <<Step("packet", "check", napcat_packet_install_path, 0, TRUE)>>
            /\ Goto("install_over")
       ELSE /\ decision' = [decision EXCEPT !["packet"] = "FRESH_INSTALL"]
            /\ fs' = Mkdir(fs, napcat_packet_install_path)
            /\ trace' = <<Step("packet", "check", napcat_packet_install_path, 0, TRUE),
                          Step("packet", "mkdir", napcat_packet_install_path, 0, TRUE)>>
            /\ Goto("download_packet")
    /\ UNCHANGED <<select, children, runner, run, zip, pkgdb, arch, package_manager, package_installer,
                   napcat_remote_version, qq_remote_version, qq_remote_hash,
                   qq_download_url, qq_local_version, napcat_packet_download_url,
                   args5, proxy>>

\* download_packet, lines 592-595: the architecture's suffix
packet_url(url, a) ==
    IF a = "x86_64" \/ a = "amd64" THEN url \o <<"linux">>
    ELSE IF a = "aarch64" \/ a = "arm64" THEN url \o <<"arm">>
    ELSE url

download_packet ==
    /\ pc = "download_packet"
    /\ \E rc \in ExitCodes :
         LET base == IF proxy = 0 THEN packet_url(napcat_packet_download_url, arch)
                     ELSE napcat_packet_download_url
             url == Candidate(proxy, base)
             r == curl_subprocess(rc, FALSE, FALSE)
             next == download_next(proxy, r.returncode)
         IN  /\ napcat_packet_download_url' = base
             /\ args5' = url
             /\ trace' = Append(trace, Step("packet", "curl", url, rc, FALSE))
             /\ fs' = IF r.returncode = 0 THEN WriteFile(fs, packet_path, FALSE, Raw(<<"download">>)) ELSE fs
             /\ IF ~r.returns THEN ExitBy(r) /\ UNCHANGED proxy
                ELSE IF next = "return" THEN proxy' = 0 /\ Goto("install_packet")
                ELSE IF next = "retry" THEN proxy' = proxy + 1 /\ Goto("download_packet")
                ELSE proxy' = 0 /\ Exit("logic", 1, rc, FALSE)
    /\ UNCHANGED <<select, children, runner, run, zip, pkgdb, arch, package_manager, package_installer,
                   napcat_remote_version, qq_remote_version, qq_remote_hash,
                   qq_download_url, qq_local_version, decision, before>>

\* install_packet, lines 574-582
install_packet ==
    /\ pc = "install_packet"
    /\ IF Loads(fs, napcat_config_path)
       THEN /\ fs' = Patch(fs, napcat_config_path, ("packetServer" :> <<"127.0.0.1:8086">>))
            /\ trace' = Append(trace, Step("packet", "patch", napcat_config_path, 0, TRUE))
            /\ Goto("check_packet_chmod")
       ELSE /\ fs' = fs
            /\ trace' = Append(trace, Step("packet", "patch", napcat_config_path, 1, TRUE))
            /\ Exit("exception", 1, 0, FALSE)
    /\ UNCHANGED <<run, zip, pkgdb, arch, procVars>>

\* check_packet, line 567
check_packet_chmod ==
    /\ pc = "check_packet_chmod"
    /\ IF packet_path \in DOMAIN fs
       THEN /\ fs' = ChmodAll(fs, {packet_path})
            /\ trace' = Append(trace, Step("packet", "chmod", packet_path, 0, TRUE))
            /\ Goto("install_over")
       ELSE /\ fs' = fs
            /\ trace' = Append(trace, Step("packet", "chmod", packet_path, 1, TRUE))
            /\ Exit("exception", 1, 0, FALSE)
    /\ UNCHANGED <<run, zip, pkgdb, arch, procVars>>

\* install_over, then main returns
install_over ==
    /\ pc = "install_over"
    /\ pc' = "done"
    /\ exitCode' = 0
    /\ UNCHANGED <<fail, run, trace, fs, zip, pkgdb, arch, procVars>>

\* the installer is started again on the same machine
Rerun ==
    /\ pc \in {"done", "exit"}
    /\ run < MaxRuns
    /\ run' = run + 1
    /\ pc' = "get_remote_version"
    /\ exitCode' = -1
    /\ fail' = NoFail
    /\ trace' = <<>>
    /\ package_manager' = "None"
    /\ package_installer' = "None"
    /\ napcat_remote_version' = None
    /\ qq_remote_version' = None
    /\ qq_remote_hash' = None
    /\ qq_download_url' = None
    /\ qq_local_version' = None
    /\ napcat_packet_download_url' = napcat_packet_download_url_base
    /\ args5' = None
    /\ proxy' = 0
    /\ decision' = [a \in {"host", "payload", "packet"} |-> "UNEVALUATED"]
    /\ before' = NoTree
    /\ UNCHANGED <<fs, zip, pkgdb, arch, children, runner, select>>

Next ==
    \/ get_remote_version
    \/ get_remote_version_qq
    \/ detect_package_manager
    \/ detect_package_installer
    \/ check_installed
    \/ install
    \/ install_package
    \/ install_libnss3
    \/ install_libgbm1
    \/ install_xvfb
    \/ install_libasound2
    \/ install_libasound2t64
    \/ install_rm
    \/ update_linuxqq_config
    \/ check_napcat
    \/ download_napcat
    \/ install_napcat
    \/ install_napcat_rm
    \/ install_napcat_extract
    \/ install_napcat_chmod
    \/ install_napcat_hook
    \/ install_napcat_unlink
    \/ install_napcat_manifest
    \/ check_packet
    \/ download_packet
    \/ install_packet
    \/ check_packet_chmod
    \/ install_over
    \/ Rerun

Spec == Init /\ [][Next]_vars

(***************************************************************************)
(* Inside the command runners.  In Spec a command is one step: its runner  *)
(* has returned or has ended the run.  SpecRunner looks at what happens    *)
(* between Popen and that return: the child writes its output into a pipe, *)
(* closes it and exits, while the runner reads, polls and waits.  The      *)
(* caller starts one command after the other, as main() and the mirror     *)
(* loops do.                                                               *)
(***************************************************************************)
Runners == {"call_subprocess", "curl_subprocess", "long_time_subprocess"}

\* the variables of Spec, which the runners do not touch
mainVars ==
    <<pc, run, exitCode, fail, trace, fs, zip, pkgdb, arch, package_manager,
      package_installer, napcat_remote_version, qq_remote_version, qq_remote_hash,
      qq_download_url, qq_local_version, napcat_packet_download_url, args5, proxy,
      decision, before, select>>

\* the child the runner at work has started
process == children[Len(children)]

\* process.poll() is not None
poll(child) == child.state = "exited"

\* process.wait() returning at once, whether the child has exited or not
wait_nohang(child) == TRUE

\* process.wait() returns
wait(child) == child.state = "exited"

\* a read of the child's pipe meets the end of the file
eof(child) == child.state # "running" /\ child.piped = 0

\* subprocess.Popen(args, stdout=PIPE, stderr=PIPE) / subprocess.run(args, ...):
\* the child starts with some amount of output to write
Popen ==
    /\ runner.name = "idle"
    /\ Len(children) < MaxCommands
    /\ \E name \in Runners, out \in 0 .. MaxOutput :
         /\ children' = Append(children, [state |-> "running", pending |-> out, piped |-> 0])
         /\ runner' = [Idle EXCEPT !.name = name,
                                   !.at = IF name = "long_time_subprocess" THEN "while" ELSE "read"]
    /\ UNCHANGED mainVars

\* a child writes one unit of output; the write blocks while the pipe is full
child_write ==
    /\ \E i \in DOMAIN children :
         /\ children[i].state = "running"
         /\ children[i].pending > 0
         /\ children[i].piped < PipeCapacity
         /\ children' = [children EXCEPT ![i].pending = @ - 1, ![i].piped = @ + 1]
    /\ UNCHANGED <<mainVars, runner>>

\* a child that has written all its output closes its pipes on its way out
child_close ==
    /\ \E i \in DOMAIN children :
         /\ children[i].state = "running"
         /\ children[i].pending = 0
         /\ children' = [children EXCEPT ![i].state = "closed"]
    /\ UNCHANGED <<mainVars, runner>>

\* the child has exited: poll() and wait() see it
child_exit ==
    /\ \E i \in DOMAIN children :
         /\ children[i].state = "closed"
         /\ children' = [children EXCEPT ![i].state = "exited"]
    /\ UNCHANGED <<mainVars, runner>>

\* subprocess.run (communicate) in call_subprocess, and the loop over
\* process.stderr in curl_subprocess: read what the pipe holds, until the
\* end of the file
runner_read ==
    /\ runner.name \in {"call_subprocess", "curl_subprocess"}
    /\ runner.at = "read"
    /\ process.piped > 0 \/ eof(process)
    /\ IF process.piped > 0
       THEN /\ children' = [children EXCEPT ![Len(children)].piped = 0]
            /\ runner' = runner
       ELSE /\ children' = children
            /\ runner' = [runner EXCEPT !.at = "wait"]
    /\ UNCHANGED mainVars

\* long_time_subprocess, line 219: the test at the head of the while loop
long_time_subprocess_while ==
    /\ runner.name = "long_time_subprocess"
    /\ runner.at = "while"
    /\ runner' = IF poll(process)
                 THEN [runner EXCEPT !.at = "wait", !.observed = TRUE]
                 ELSE [runner EXCEPT !.at = "right", !.position = 1]
    /\ UNCHANGED <<mainVars, children>>

\* long_time_subprocess, lines 223-231: one turn of the loop moving right
long_time_subprocess_right ==
    /\ runner.name = "long_time_subprocess"
    /\ runner.at = "right"
    /\ runner' = IF runner.position > max_length
                 THEN [runner EXCEPT !.at = "left", !.position = max_length]
                 ELSE IF poll(process)
                 THEN [runner EXCEPT !.at = "left", !.position = max_length, !.observed = TRUE]
                 ELSE [runner EXCEPT !.position = @ + 1, !.late = @ \/ runner.observed]
    /\ UNCHANGED <<mainVars, children>>

\* long_time_subprocess, lines 234-242: one turn of the loop moving left
long_time_subprocess_left ==
    /\ runner.name = "long_time_subprocess"
    /\ runner.at = "left"
    /\ runner' = IF runner.position < 1
                 THEN [runner EXCEPT !.at = "while"]
                 ELSE IF poll(process)
                 THEN [runner EXCEPT !.at = "while", !.observed = TRUE]
                 ELSE [runner EXCEPT !.position = @ - 1, !.late = @ \/ runner.observed]
    /\ UNCHANGED <<mainVars, children>>

\* process.wait(), after which the runner returns or ends the run
runner_wait ==
    /\ runner.name \in Runners
    /\ runner.at = "wait"
    /\ wait(process)
    /\ runner' = Idle
    /\ UNCHANGED <<mainVars, children>>

ChildNext == child_write \/ child_close \/ child_exit

RunnerStep ==
    \/ runner_read
    \/ long_time_subprocess_while
    \/ long_time_subprocess_right
    \/ long_time_subprocess_left
    \/ runner_wait

RunnerNext ==
    \/ Popen
    \/ child_write
    \/ child_close
    \/ child_exit
    \/ runner_read
    \/ long_time_subprocess_while
    \/ long_time_subprocess_right
    \/ long_time_subprocess_left
    \/ runner_wait

\* the operating system lets a child that can take a step take it, and the
\* installer's own process keeps running
SpecRunner ==
    Init /\ [][RunnerNext]_vars /\ WF_vars(ChildNext) /\ WF_vars(RunnerStep)


(***************************************************************************)
(* The choice of the install strategy, in main() of napcat-install.py and  *)
(* of napcat-install-linux.py: the two flags, and without one of them the  *)
(* prompt of the first script and the menu of the second.  A line of text  *)
(* is a sequence of characters here.                                       *)
(***************************************************************************)
Scripts == {"napcat-install.py", "napcat-install-linux.py"}

\* the command lines: any set of the two flags
Argvs == SUBSET {"-s", "-d"}

\* what the user may type at the prompt of napcat-install.py
Answers ==
    {<<>>, <<" ">>, <<"s", "h", "e", "l", "l">>, <<"d", "o", "c", "k", "e", "r">>,
     <<" ", "D", "o", "c", "k", "e", "r">>, <<"S", "H", "E", "L", "L", " ">>, <<"n", "o">>}

\* the keys the menu of napcat-install-linux.py reads
Keys == {"KEY_UP", "KEY_DOWN", "KEY_ENTER", "q"}

\* the rows of the menu
options == <<<<"Shell", "     - ", "shell install">>, <<"Docker", "    - ", "docker install">>>>

\* everything but select
restVars ==
    <<pc, run, exitCode, fail, trace, fs, zip, pkgdb, arch, package_manager,
      package_installer, napcat_remote_version, qq_remote_version, qq_remote_hash,
      qq_download_url, qq_local_version, napcat_packet_download_url, args5, proxy,
      decision, before, children, runner>>

RECURSIVE lstrip(_)
lstrip(text) == IF text # <<>> /\ Head(text) = " " THEN lstrip(Tail(text)) ELSE text

RECURSIVE rstrip(_)
rstrip(text) ==
    IF text # <<>> /\ text[Len(text)] = " " THEN rstrip(SubSeq(text, 1, Len(text) - 1)) ELSE text

\* str.strip()
strip(text) == rstrip(lstrip(text))

lower_char(c) ==
    CASE c = "D" -> "d" [] c = "S" -> "s" [] c = "H" -> "h" [] c = "E" -> "e" [] c = "L" -> "l"
      [] OTHER -> c

\* str.lower()
RECURSIVE lower(_)
lower(text) == IF text = <<>> THEN <<>> ELSE <<lower_char(Head(text))>> \o lower(Tail(text))

\* str.replace(old, "") on a row of the menu
RECURSIVE replace(_, _)
replace(text, old) ==
    IF text = <<>> THEN <<>>
    ELSE (IF Head(text) = old THEN <<>> ELSE <<Head(text)>>) \o replace(Tail(text), old)

\* napcat-install.py, line 138: the value of
\*   input(...).strip().lower() or 'shell' == 'docker'
\* is the answer if it is not empty, and otherwise 'shell' == 'docker';
\* the if tests its truth
answer_is_docker(answer) ==
    LET typed == lower(strip(answer))
    IN  IF typed # <<>> THEN TRUE ELSE "shell" = "docker"

\* main() begins: the script and its command line
Start(script, argv) ==
    [script |-> script, at |-> "parse_args", argv |-> argv, shell |-> FALSE, docker |-> FALSE,
     current_row |-> 0, answer |-> <<>>, status |-> -1]

SelectInit == Boot /\ \E script \in Scripts, argv \in Argvs : select = Start(script, argv)

\* parser.parse_args() with the mutually exclusive group of -s and -d
parse_args ==
    /\ select.at = "parse_args"
    /\ select' =
          IF {"-s", "-d"} \subseteq select.argv
          THEN [select EXCEPT !.at = "exit", !.status = 2]
          ELSE [select EXCEPT !.shell = "-s" \in select.argv,
                               !.docker = "-d" \in select.argv,
                               !.at = IF select.argv # {} THEN "install"
                                      ELSE IF select.script = "napcat-install.py" THEN "input"
                                      ELSE "select_install_method"]
    /\ UNCHANGED restVars

\* napcat-install.py, lines 138-141
input ==
    /\ select.at = "input"
    /\ \E answer \in Answers :
         select' = IF answer_is_docker(answer)
                   THEN [select EXCEPT !.answer = answer, !.docker = TRUE, !.at = "install"]
                   ELSE [select EXCEPT !.answer = answer, !.shell = TRUE, !.at = "install"]
    /\ UNCHANGED restVars

\* napcat-install-linux.py, lines 731-745: one key of the menu
select_install_method ==
    /\ select.at = "select_install_method"
    /\ \E key \in Keys :
         select' =
           IF key = "KEY_UP" /\ select.current_row > 0
           THEN [select EXCEPT !.current_row = @ - 1]
           ELSE IF key = "KEY_DOWN" /\ select.current_row < Len(options) - 1
           THEN [select EXCEPT !.current_row = @ + 1]
           ELSE IF key = "KEY_ENTER"
           THEN [select EXCEPT
                   !.shell = options[select.current_row + 1] = replace(options[1], "   >>> "),
                   !.docker = options[select.current_row + 1] = replace(options[2], "   >>> "),
                   !.at = "install"]
           ELSE select
    /\ UNCHANGED restVars

\* the install begins: if args.shell ... elif args.docker ...
start_install ==
    /\ select.at = "install"
    /\ select' = [select EXCEPT !.at = IF select.shell THEN "shell"
                                       ELSE IF select.docker THEN "docker"
                                       ELSE "none"]
    /\ UNCHANGED restVars

SelectNext ==
    \/ parse_args
    \/ input
    \/ select_install_method
    \/ start_install

SpecSelect == SelectInit /\ [][SelectNext]_vars

(***************************************************************************)
(* The claims.                                                             *)
(***************************************************************************)
LastStep == trace[Len(trace)]

\* the local versions as the specification defines them: None when the
\* package is not installed, None when the payload's manifest is absent
HostLocalVersion == IF pkgdb = None THEN None ELSE qq_local_version

PayloadLocalVersion ==
    LET manifest == napcat_install_path \o <<"package.json">> IN
    IF manifest \notin DOMAIN fs THEN None ELSE <<"v">> \o fs[manifest].doc["version"]

DecisionIs(d, local, remote) ==
    /\ d = "SKIP" <=> local = remote
    /\ d = "FRESH_INSTALL" <=> local = None
    /\ d = "UPGRADE" <=> local \notin {None, remote}

\* check_installed / check_napcat has just run
HostChecked == trace # <<>> /\ LastStep.op = "query"

PayloadChecked == trace # <<>> /\ LastStep.op = "check" /\ LastStep.art = "payload"

\* C1: once the check of the host application or of the payload has run,
\* its decision is SKIP iff the local version is the remote one,
\* FRESH_INSTALL iff there is no local version, UPGRADE iff there is another
\* local version; so exactly one decision has been taken.
C1_Decision ==
    /\ HostChecked => DecisionIs(decision["host"], HostLocalVersion, qq_remote_version)
    /\ PayloadChecked => DecisionIs(decision["payload"], PayloadLocalVersion, napcat_remote_version)


IsCurl(s) == s.op = "curl"

\* the transfers attempted so far for the artifact at hand
Attempts == SelectSeq(trace, IsCurl)

\* the run is working on an artifact fetched through the mirror list
Fetching == trace # <<>> /\ trace[1].art \in {"payload", "packet"}

PrimarySource ==
    IF trace[1].art = "payload" THEN napcat_download_url
    ELSE napcat_packet_download_url_base
           \o (IF arch \in {"x86_64", "amd64"} THEN <<"linux">>
               ELSE IF arch \in {"aarch64", "arm64"} THEN <<"arm">>
               ELSE <<>>)

\* the source of the i-th attempt: the primary, then mirror 1, mirror 2, ...
ExpectedSource(i) == IF i = 1 THEN PrimarySource ELSE <<proxy_list[i - 1]>> \o PrimarySource

\* C2: the attempts of download_napcat and download_packet are the primary
\* and then the mirrors in the order of proxy_list, every attempt but the
\* last has failed (so a success after the primary and K mirrors failed
\* leaves exactly K+2 attempts), and after a success the download has
\* returned to its caller with the succeeding source in args[5].
C2_MirrorFailover ==
    Fetching =>
        /\ Len(Attempts) <= Len(proxy_list) + 1
        /\ \A i \in 1 .. Len(Attempts) : Attempts[i].arg = ExpectedSource(i)
        /\ \A i \in 1 .. (Len(Attempts) - 1) : ~Attempts[i].ok
        /\ (LastStep.op = "curl" /\ LastStep.ok) =>
              /\ pc \in {"install_napcat", "install_napcat_rm", "install_packet"}
              /\ args5 = ExpectedSource(Len(Attempts))

\* the primary and the first five mirrors failed, the sixth mirror succeeded
C2_Witness ==
    /\ Fetching
    /\ Len(Attempts) = 7
    /\ \A i \in 1 .. 6 : ~Attempts[i].ok
    /\ LastStep.op = "curl" /\ LastStep.ok
    /\ pc = "install_packet"
    /\ args5 = <<proxy_list[6]>> \o PrimarySource

\* C3: when the primary and all the mirrors have failed the run has ended
\* with a non-zero status and the last failed transfer is the last thing
\* the run did; and a run that ends on a failed transfer of these downloads
\* has made exactly Len(proxy_list) + 1 attempts.
C3_Exhaustion ==
    Fetching =>
        /\ (Len(Attempts) = Len(proxy_list) + 1 /\ \A i \in 1 .. Len(Attempts) : ~Attempts[i].ok) =>
              /\ pc = "exit"
              /\ exitCode > 0
              /\ LastStep.op = "curl"
        /\ (pc = "exit" /\ LastStep.op = "curl") => Len(Attempts) = Len(proxy_list) + 1

\* all seven transfers of the payload archive failed and the run has ended
C3_Witness ==
    /\ Fetching
    /\ trace[1].art = "payload"
    /\ Len(Attempts) = 7
    /\ \A i \in 1 .. 7 : ~Attempts[i].ok
    /\ pc = "exit"
    /\ exitCode = 1


\* the payload tree is complete: install_napcat has run to its end
PayloadInstalled ==
    /\ pc = "check_packet"
    /\ decision["payload"] \in {"FRESH_INSTALL", "UPGRADE"}
    /\ LastStep.op = "patch" /\ LastStep.ok

ConfigDir == napcat_install_path \o <<"config">>

\* C4: after an UPGRADE and a successful install_napcat every file that was
\* under config/ is still there with the content it had, and the rest of
\* the payload tree is exactly the content of the new archive.
C4_UpgradePreservesState ==
    (PayloadInstalled /\ decision["payload"] = "UPGRADE") =>
        /\ \A p \in DOMAIN before :
              IsPrefix(ConfigDir, p) => p \in DOMAIN fs /\ fs[p].doc = before[p].doc
        /\ \A p \in rglob(fs, napcat_install_path) :
              (fs[p].kind = "file" /\ ~IsPrefix(ConfigDir, p)) =>
                  LET m == SubSeq(p, Len(napcat_install_path) + 1, Len(p)) IN
                  m \in DOMAIN Archive(zip) /\ fs[p].doc = Archive(zip)[m].doc
        /\ \A m \in DOMAIN Archive(zip) :
              ~IsPrefix(<<"config">>, m) => napcat_install_path \o m \in DOMAIN fs

Rank(art) == CASE art = "setup" -> 0 [] art = "host" -> 1 [] art = "payload" -> 2 [] art = "packet" -> 3

\* C5: a failed step whose call site ends the run on failure is the last
\* step of its run, which has ended with a non-zero status; the steps of
\* the trace belong to one artifact, a later artifact is evaluated only
\* after the earlier ones, and a run that ended while working on one
\* artifact has not evaluated a later one.
C5_AbortOnFailure ==
    /\ \A i \in 1 .. Len(trace) :
          (~trace[i].ok /\ trace[i].fatal) => (i = Len(trace) /\ pc = "exit" /\ exitCode > 0)
    /\ \A i \in 1 .. Len(trace) : trace[i].art = trace[1].art
    /\ decision["payload"] # "UNEVALUATED" => decision["host"] # "UNEVALUATED"
    /\ decision["packet"] # "UNEVALUATED" => decision["payload"] # "UNEVALUATED"
    /\ (pc = "exit" /\ trace # <<>>) =>
          \A a \in {"host", "payload", "packet"} :
              Rank(a) > Rank(trace[1].art) => decision[a] = "UNEVALUATED"

\* the install of a dependency of the host application failed after other
\* commands had succeeded, and the run ended before the payload was looked at
C5_Witness ==
    /\ pc = "exit"
    /\ trace # <<>> /\ trace[1].art = "host"
    /\ Len(trace) >= 4
    /\ ~LastStep.ok /\ LastStep.fatal /\ LastStep.op = "apt-get"
    /\ decision["payload"] = "UNEVALUATED"

\* C6: platform detection ends the run only after both probes of a pair
\* (apt-get and yum, or dpkg and rpm) have come back non-zero.
C6_DetectionFallsBack ==
    (pc = "exit" /\ trace # <<>> /\ LastStep.op = "which") =>
        \/ \E i, j \in 1 .. Len(trace) :
              /\ trace[i].arg = <<"apt-get">> /\ ~trace[i].ok
              /\ trace[j].arg = <<"yum">> /\ ~trace[j].ok
        \/ \E i, j \in 1 .. Len(trace) :
              /\ trace[i].arg = <<"dpkg">> /\ ~trace[i].ok
              /\ trace[j].arg = <<"rpm">> /\ ~trace[j].ok

\* C7: a failed removal of the downloaded package file does not end the run.
C7_RemoveFailureTolerated ==
    (trace # <<>> /\ LastStep.art = "host" /\ LastStep.op = "rm" /\ ~LastStep.ok) => pc # "exit"

Tried(pkg) == \E i \in 1 .. Len(trace) : trace[i].op = "apt-get" /\ trace[i].arg = <<pkg>>

Failed(pkg) == \E i \in 1 .. Len(trace) : trace[i].op = "apt-get" /\ trace[i].arg = <<pkg>> /\ ~trace[i].ok

\* C8: libasound2t64 is installed if and only if the install of libasound2
\* failed, which does not end the run; the run ends on this dependency only
\* when both installs failed; a failed install of the package file, of
\* libnss3, of libgbm1 or of xvfb ends the run at once.
C8_LibasoundFallback ==
    (trace # <<>> /\ trace[1].art = "host") =>
        /\ Tried("libasound2t64") => Failed("libasound2")
        /\ Failed("libasound2") => (Tried("libasound2t64") \/ pc = "install_libasound2t64")
        /\ (Failed("libasound2") /\ ~Failed("libasound2t64")) => ~(pc = "exit" /\ LastStep.op = "apt-get")
        /\ Failed("libasound2t64") => (pc = "exit" /\ LastStep.arg = <<"libasound2t64">>)
        /\ \A i \in 1 .. Len(trace) :
              (/\ trace[i].op = "apt-get"
               /\ trace[i].arg \in {base_path \o <<"QQ.deb">>, <<"libnss3">>, <<"libgbm1">>, <<"xvfb">>}
               /\ ~trace[i].ok) => (i = Len(trace) /\ pc = "exit" /\ exitCode > 0)

\* libasound2 failed, libasound2t64 was installed in its place, the run goes on
C8_Witness ==
    /\ trace # <<>> /\ trace[1].art = "host"
    /\ package_installer = "dpkg"
    /\ Failed("libasound2")
    /\ Tried("libasound2t64") /\ ~Failed("libasound2t64")
    /\ pc = "install_rm"

\* C9: a run ended by a failed command exits with that command's status,
\* after the failure was reported.
C9_ExitWithCommandStatus ==
    (pc = "exit" /\ fail.kind = "command") => (exitCode = fail.rc /\ fail.reported)

\* C10: at the end of a successful install_napcat every file under the
\* host-application tree (the payload tree is a part of it) has mode 0o777.
C10_PermissionsNormalized ==
    PayloadInstalled =>
        \A p \in rglob(fs, qq_install_path) : fs[p].kind = "file" => fs[p].mode = FullMode


\* the edit sets of install_napcat, install_packet and update_linuxqq_config
EditSets ==
    {("main" :> <<"./loadNapCat.js">>),
     ("packetServer" :> <<"127.0.0.1:8086">>),
     ("baseVersion" :> qq_remote_version) @@ ("curVersion" :> qq_remote_version)
        @@ ("buildId" :> qq_remote_hash)}

\* C11: once the run has applied a patch, for every file on the machine
\* that loads as a document (the files just patched among them) and every
\* edit set of the program, patching twice gives the file that patching
\* once gives, the patched document holds every edited key with the edit's
\* value (created if it was absent), every other key keeps its value, and
\* no key is dropped or invented.
C11_PatchIdempotentFrame ==
    (trace # <<>> /\ LastStep.op = "patch") =>
      \A p \in DOMAIN fs : Loads(fs, p) =>
        \A e \in EditSets :
            LET once == Patch(fs, p, e)
                twice == Patch(once, p, e)
            IN  /\ twice[p] = once[p]
                /\ once[p].parses
                /\ DOMAIN once[p].doc = DOMAIN fs[p].doc \cup DOMAIN e
                /\ \A k \in DOMAIN e : once[p].doc[k] = e[k]
                /\ \A k \in DOMAIN fs[p].doc \ DOMAIN e : once[p].doc[k] = fs[p].doc[k]

\* the three patches have been applied by a run: the host manifest got main
\* and kept name, a user's config got the remote version (buildId was
\* created) and kept autoUpdate, the payload config got packetServer
C11_Witness ==
    /\ pc = "done"
    /\ fs[package_path].doc = ("main" :> <<"./loadNapCat.js">>) @@ ("name" :> <<"qq">>)
    /\ user_config_path("alice") \in DOMAIN fs
    /\ fs[user_config_path("alice")].doc =
          ("baseVersion" :> qq_remote_version) @@ ("curVersion" :> qq_remote_version)
            @@ ("buildId" :> qq_remote_hash) @@ ("autoUpdate" :> <<"true">>)
    /\ napcat_config_path \in DOMAIN fs
    /\ fs[napcat_config_path].doc = ("packetServer" :> <<"127.0.0.1:8086">>) @@ ("fileLog" :> <<"false">>)


\* the payload tree as it is now
PayloadTree == [p \in rglob(fs, napcat_install_path) |-> fs[p]]

\* C12: while the run works on the host application after a SKIP decision
\* it issues no download, no package-manager install and no removal; after
\* a SKIP decision for the payload the run goes on to the packet component
\* having issued no command and no filesystem step at all, and the payload
\* tree is the one check_napcat found.
C12_SkipFrame ==
    /\ (trace # <<>> /\ trace[1].art = "host" /\ decision["host"] = "SKIP") =>
          \A i \in 1 .. Len(trace) : trace[i].op \notin {"curl", "apt-get", "yum", "rm"}
    /\ (trace # <<>> /\ trace[1].art = "payload" /\ decision["payload"] = "SKIP") =>
          /\ Len(trace) = 1
          /\ pc = "check_packet"
          /\ PayloadTree = before

\* a second run found the host application and the payload up to date
C12_Witness ==
    /\ run = 2
    /\ pc = "check_packet"
    /\ decision["host"] = "SKIP"
    /\ decision["payload"] = "SKIP"
    /\ napcat_install_path \o <<"napcat.mjs">> \in DOMAIN before
    /\ PayloadTree = before


\* C13: when check_napcat has run on a machine whose payload manifest is
\* absent, the local version was None: the decision is FRESH_INSTALL and
\* the run goes on to the download instead of ending on an error.
C13_AbsentManifestIsNone ==
    (PayloadChecked /\ napcat_install_path \o <<"package.json">> \notin DOMAIN fs) =>
        /\ pc = "download_napcat"
        /\ decision["payload"] = "FRESH_INSTALL"


\* C14: a package-database query that could not be carried out on a machine
\* where the package is installed is not taken for "not installed": it
\* leads to no FRESH_INSTALL decision and to no install.
C14_QueryFailureIsNoAbsence ==
    (HostChecked /\ pkgdb # None /\ ~LastStep.ok) =>
        /\ decision["host"] # "FRESH_INSTALL"
        /\ pc # "install"


\* the platform suffixes by installer kind and architecture
PlatformSuffix ==
    [dpkg |-> [x86_64 |-> "_amd64.deb", amd64 |-> "_amd64.deb",
               aarch64 |-> "_arm64.deb", arm64 |-> "_arm64.deb"],
     rpm |-> [x86_64 |-> "_x86_64.rpm", amd64 |-> "_x86_64.rpm",
              aarch64 |-> "_aarch64.rpm", arm64 |-> "_aarch64.rpm"]]

\* C15: every download of the host application's package is made from
\* {base}/{hash}/linuxqq_{version} followed by the one platform suffix of
\* the detected installer and architecture; none is made from a URL with
\* no suffix or with more than one.
C15_DownloadUrlSuffix ==
    \A i \in 1 .. Len(trace) :
        (trace[i].art = "host" /\ trace[i].op = "curl") =>
            /\ package_installer \in DOMAIN PlatformSuffix
            /\ arch \in DOMAIN PlatformSuffix[package_installer]
            /\ trace[i].arg =
                  <<"https://dldir1.qq.com/qqfile/qq/QQNT/">> \o qq_remote_hash \o <<"/linuxqq_">>
                    \o qq_remote_version \o <<PlatformSuffix[package_installer][arch]>>


\* C16 (under SpecRunner): no progress frame is drawn after poll() has
\* reported the child's exit, and whatever the child has to write, a call
\* of long_time_subprocess leads to its return.
C16_LongTimeReturns ==
    /\ [](~runner.late)
    /\ (runner.name = "long_time_subprocess") ~> (runner.name = "idle")

\* the children that have not exited
Alive == {i \in DOMAIN children : children[i].state # "exited"}

\* C18 (under SpecRunner): at most one child is alive, and it is the one
\* started last: every command started before it has exited.
C18_OneChildAtATime ==
    /\ Cardinality(Alive) <= 1
    /\ \A i \in 1 .. (Len(children) - 1) : children[i].state = "exited"
    /\ runner.name = "idle" => Alive = {}

\* a third transfer is under way after two commands that have exited, the
\* first of them run by long_time_subprocess with output left in its pipe
C18_Witness ==
    /\ Len(children) = 3
    /\ runner.name = "curl_subprocess"
    /\ children[3].state = "running"
    /\ children[2].state = "exited"
    /\ children[1].state = "exited" /\ children[1].piped > 0


\* the requests made to a metadata endpoint by this run
Requests(url) == {i \in 1 .. Len(trace) : trace[i].op = "curl" /\ trace[i].arg = <<url>>}

\* the run is in ShellInstall.__init__ (the trace is that of the setup)
InSetup == trace # <<>> /\ trace[1].art = "setup"

\* platform detection has begun
Detecting == pc \in {"detect_package_manager", "detect_package_installer"}
                \/ \E i \in 1 .. Len(trace) : trace[i].op = "which"

\* C17: each metadata endpoint is asked at most once in a run; platform
\* detection begins only after one successful request to each endpoint
\* whose body gave the expected fields; a run that ends on a request has
\* a non-zero status and has probed nothing; and the steps of remote
\* version resolution change nothing on the machine.
C17_RemoteVersionFatal ==
    /\ [](InSetup =>
            /\ Cardinality(Requests("https://nclatest.znin.net/")) <= 1
            /\ Cardinality(Requests("https://nclatest.znin.net/get_qq_ver")) <= 1
            /\ \A i \in 1 .. Len(trace) :
                  (trace[i].op = "curl" /\ ~trace[i].ok) => (i = Len(trace) /\ pc = "exit")
            /\ Detecting =>
                  /\ Cardinality(Requests("https://nclatest.znin.net/")) = 1
                  /\ Cardinality(Requests("https://nclatest.znin.net/get_qq_ver")) = 1
                  /\ napcat_remote_version # None
                  /\ qq_remote_version # None
                  /\ qq_remote_hash # None
            /\ (pc = "exit" /\ LastStep.op = "curl") =>
                  /\ exitCode > 0
                  /\ package_manager = "None"
                  /\ package_installer = "None")
    /\ [][(pc \in {"get_remote_version", "get_remote_version_qq"}) =>
             (fs' = fs /\ pkgdb' = pkgdb /\ zip' = zip)]_vars

\* the first endpoint answered, the second was reached and its body held
\* no version: the run ended with status 1 after two requests
C17_Witness ==
    /\ InSetup
    /\ pc = "exit"
    /\ exitCode = 1
    /\ Len(trace) = 2
    /\ LastStep.arg = <<"https://nclatest.znin.net/get_qq_ver">> /\ LastStep.ok
    /\ napcat_remote_version # None
    /\ qq_remote_version = None


\* the place of a step in install_napcat
Phase(op) ==
    CASE op \in {"check", "curl"} -> 0
      [] op \in {"mkdir", "rm"} -> 1
      [] op = "extract" -> 2
      [] op = "chmod" -> 3
      [] op = "write" -> 4
      [] op = "unlink" -> 5
      [] op = "patch" -> 6

Count(op) == Cardinality({i \in 1 .. Len(trace) : trace[i].op = op})

\* C19: the steps of install_napcat come in the order remove (or create the
\* directory), extract, normalize permissions, write hook, delete archive,
\* patch manifest; when it has run to its end each of the last five was
\* done once and succeeded, the hook file imports napcat.mjs of the install
\* path, which exists, the host manifest's main is ./loadNapCat.js and the
\* archive is gone; and the manifest never names the hook while there is
\* no hook file.
C19_InstallOrder ==
    /\ (trace # <<>> /\ trace[1].art = "payload") =>
          \A i \in 1 .. (Len(trace) - 1) : Phase(trace[i].op) <= Phase(trace[i + 1].op)
    /\ PayloadInstalled =>
          /\ \A op \in {"extract", "chmod", "write", "unlink", "patch"} : Count(op) = 1
          /\ Count("mkdir") = 1 \/ decision["payload"] = "UPGRADE"
          /\ \A i \in 1 .. Len(trace) : Phase(trace[i].op) > 0 => trace[i].ok
          /\ hook_path \in DOMAIN fs
          /\ fs[hook_path].doc = ("raw" :> <<"import", "file:///", "opt", "QQ", "NapCat", "napcat.mjs">>)
          /\ <<"opt", "QQ", "NapCat", "napcat.mjs">> \in DOMAIN fs
          /\ fs[package_path].doc["main"] = <<"./loadNapCat.js">>
          /\ zip_path \notin DOMAIN fs
    /\ (package_path \in DOMAIN fs /\ fs[package_path].doc["main"] = <<"./loadNapCat.js">>) =>
          hook_path \in DOMAIN fs

\* an upgrade of the payload has run to its end, old contents removed first
C19_Witness ==
    /\ PayloadInstalled
    /\ decision["payload"] = "UPGRADE"
    /\ Count("rm") >= 2
    /\ fs[package_path].doc["main"] = <<"./loadNapCat.js">>
    /\ zip_path \notin DOMAIN fs


\* p is a file that does not parse as a JSON document
Malformed(p) == p \in DOMAIN fs /\ fs[p].kind = "file" /\ ~fs[p].parses

\* C20: a step that sets out to patch a file that does not parse fails, is
\* the last step of the run, which ends with a non-zero status, and leaves
\* that file as it was.
C20_MalformedConfigAborts ==
    [][\A i \in (Len(trace) + 1) .. Len(trace') :
          (trace'[i].op = "patch" /\ Malformed(trace'[i].arg)) =>
              /\ ~trace'[i].ok
              /\ i = Len(trace')
              /\ pc' = "exit"
              /\ exitCode' > 0
              /\ fs'[trace'[i].arg] = fs[trace'[i].arg]]_vars

\* update_linuxqq_config patched one user's config, met another user's
\* config that does not parse, and the run ended with that file untouched
C20_Witness ==
    /\ pc = "exit"
    /\ exitCode = 1
    /\ Len(trace) = 4
    /\ trace[3].op = "patch" /\ trace[3].ok
    /\ LastStep.op = "patch" /\ ~LastStep.ok
    /\ LastStep.arg = user_config_path("bob")
    /\ fs[user_config_path("bob")] = BadConfig
    /\ fs[user_config_path("alice")].doc["curVersion"] = qq_remote_version


\* what the user typed at the prompt, as the script reads it
Typed == lower(strip(select.answer))

\* the strategy is chosen: the install begins or has begun
Chosen == select.at \in {"install", "shell", "docker", "none"}

\* the strategy was chosen interactively
Interactive == Chosen /\ select.argv = {}

\* C21: the two flags are mutually exclusive; with neither flag an interactive
\* choice is made, after which exactly one of shell and docker is selected and
\* it is the one the user chose: at the prompt of napcat-install.py the answer
\* "docker" selects docker and the answer "shell" or the empty answer selects
\* shell, and in the menu of napcat-install-linux.py the highlighted row
\* selects its strategy with the cursor always inside the option list.
C21_StrategySelection ==
    /\ ({"-s", "-d"} \subseteq select.argv) => ~Chosen
    /\ select.current_row \in 0 .. Len(options) - 1
    /\ Chosen => (select.shell # select.docker)
    /\ (Chosen /\ select.argv # {}) => (select.shell <=> "-s" \in select.argv)
    /\ (Interactive /\ select.script = "napcat-install.py") =>
          /\ (Typed = <<"d", "o", "c", "k", "e", "r">>) => select.docker
          /\ (Typed \in {<<>>, <<"s", "h", "e", "l", "l">>}) => select.shell
    /\ (Interactive /\ select.script = "napcat-install-linux.py") =>
          /\ (select.current_row = 0) => select.shell
          /\ (select.current_row = 1) => select.docker
    /\ (select.at = "shell") => select.shell
    /\ (select.at = "docker") => select.docker
    /\ select.at # "none"


\* the config copies update_linuxqq_config finds on the machine
Discovered ==
    FindConfigs(fs) \cup (IF root_config_path \in DOMAIN fs THEN {root_config_path} ELSE {})

\* the config p holds the remote version and hash
HoldsRemote(p) ==
    /\ fs[p].doc["baseVersion"] = qq_remote_version
    /\ fs[p].doc["curVersion"] = qq_remote_version
    /\ fs[p].doc["buildId"] = qq_remote_hash

\* the steps of the trace that patched p
Patches(p) == {i \in 1 .. Len(trace) : trace[i].op = "patch" /\ trace[i].arg = p}

\* the host stage of the run is over: the payload's check comes next
HostStageOver == pc = "check_napcat"

\* C22: a run that gets past the host application's stage has looked for the
\* config copies once and patched each discovered copy exactly once, with
\* success, whatever the host decision was (SKIP, FRESH_INSTALL, UPGRADE);
\* then, and at the end of a successful run, every discovered config holds
\* the remote version in baseVersion and curVersion and the remote hash in
\* buildId.
C22_ConfigPatchedOnce ==
    /\ HostStageOver =>
          /\ decision["host"] \in {"SKIP", "FRESH_INSTALL", "UPGRADE"}
          /\ Count("find") = 1
          /\ \A p \in Discovered :
                /\ Cardinality(Patches(p)) = 1
                /\ \A i \in Patches(p) : trace[i].ok
          /\ \A i \in 1 .. Len(trace) : trace[i].op = "patch" => trace[i].arg \in Discovered
    /\ (HostStageOver \/ pc = "done") => \A p \in Discovered : HoldsRemote(p)

\* the host application was found up to date and two config copies, a
\* user's and root's, were patched all the same
C22_Witness ==
    /\ HostStageOver
    /\ decision["host"] = "SKIP"
    /\ Cardinality(Discovered) = 2
    /\ \A p \in Discovered : Cardinality(Patches(p)) = 1 /\ HoldsRemote(p)


\* the host application loads the payload: its manifest's main entry names
\* the hook, and the hook file is there
Hooked ==
    /\ package_path \in DOMAIN fs
    /\ fs[package_path].doc["main"] = <<"./loadNapCat.js">>
    /\ hook_path \in DOMAIN fs

\* C23: at the end of every successful run the host application's manifest
\* main entry points at the integration hook and the hook file exists, for
\* every combination of the decisions, also when the host application was
\* installed again or upgraded while the payload's decision was SKIP.
C23_HookedAfterRun == (pc = "done") => Hooked


\* the packet component is installed: the binary is there and executable,
\* and the payload's config names the packet server
PacketInstalled ==
    /\ packet_path \in DOMAIN fs
    /\ fs[packet_path].mode = FullMode
    /\ Loads(fs, napcat_config_path)
    /\ "packetServer" \in DOMAIN fs[napcat_config_path].doc

\* check_packet has just decided to skip
PacketSkipped == pc = "install_over" /\ decision["packet"] = "SKIP"

\* C24: check_packet skips only when the packet component is installed
\* (binary present and executable, packetServer configured); so a run that
\* follows a run which ended inside check_packet, and that ends successfully
\* itself, ends with the packet binary present.
C24_PacketRecovered ==
    /\ PacketSkipped => PacketInstalled
    /\ (pc = "done" /\ run > 1) => packet_path \in DOMAIN fs

====
